---- MODULE Spec2Model ----
(***************************************************************************)
(* The markets page script (static/js/markets.js, the variant with symbol  *)
(* pills): selection state, the refresh() coroutine with its in-flight     *)
(* guard, fetchPoints' payload mapping and buildChart.                      *)
(*                                                                         *)
(* JavaScript runs handlers to completion; refresh() suspends only at its  *)
(* two awaits (fetch, res.json).  Every action below is one run of the     *)
(* event loop: an event handler up to its first await, or the continuation *)
(* of a settled promise up to the next await or the end of refresh().      *)
(***************************************************************************)
EXTENDS Integers, Sequences, FiniteSets, TLC

\* Bounds of the model.
MaxTriggers == 3
MaxLen == 3
MaxText == 47

----------------------------------------------------------------------------
\* Values

Symbols == {"TSM", "NVDA"}

RangeEnum == {"1d", "5d", "1mo", "6mo", "ytd", "1y", "5y", "max"}

\* The enum plus one token no branch recognises.
Ranges == RangeEnum \cup {"2y"}

\* data-range / data-interval pairs carried by the range buttons.
RangeButtons ==
    { [range |-> "1d",  interval |-> "5m"],
      [range |-> "ytd", interval |-> "1d"],
      [range |-> "5y",  interval |-> "1wk"] }

\* JavaScript values that can sit in a point's t and c fields.
Num(n) == [tag |-> "number", val |-> n]
NaN == [tag |-> "NaN", val |-> 0]
Infinity == [tag |-> "Infinity", val |-> 0]
\* Strings: one that does not read as a number ("x"), one that reads as the
\* number n ("12"), and the empty string.
Str == [tag |-> "string", val |-> 0]
StrNum(n) == [tag |-> "numeric string", val |-> n]
StrEmpty == [tag |-> "empty string", val |-> 0]
Undefined == [tag |-> "undefined", val |-> 0]

\* An entry of the points list: an object {t, c}, or null.
Point(t, c) == [obj |-> TRUE, t |-> t, c |-> c]
NullEntry == [obj |-> FALSE, t |-> Undefined, c |-> Undefined]

----------------------------------------------------------------------------
\* Pure functions

pickTimeUnit_5yAsYear(r) ==
    IF r = "1d" \/ r = "5d" THEN "hour"
    ELSE IF r \in {"1mo", "6mo", "ytd", "1y"} THEN "day"
    ELSE "year"

pickTimeUnit(r) ==
    IF r = "1d" \/ r = "5d" THEN "hour"
    ELSE IF r \in {"1mo", "6mo", "ytd", "1y"} THEN "day"
    ELSE IF r = "5y" THEN "month"
    ELSE "year"

pickTooltipFormat_No1y(r) ==
    IF r = "1d" \/ r = "5d" THEN "MMM d, h:mmaaa"
    ELSE IF r \in {"1mo", "6mo", "ytd"} THEN "MMM d, yyyy"
    ELSE "MMM yyyy"

pickTooltipFormat(r) ==
    IF r = "1d" \/ r = "5d" THEN "MMM d, h:mmaaa"
    ELSE IF r \in {"1mo", "6mo", "ytd", "1y"} THEN "MMM d, yyyy"
    ELSE "MMM yyyy"

\* Number.isFinite: no coercion, true of finite numbers only.
NumberIsFinite(v) == v.tag = "number"

\* Unary plus (ToNumber): a string that reads as a number converts to it, the
\* empty string to 0, any other string and undefined to NaN.
UnaryPlus(v) ==
    CASE v.tag = "number" -> v
      [] v.tag = "Infinity" -> v
      [] v.tag = "numeric string" -> Num(v.val)
      [] v.tag = "empty string" -> Num(0)
      [] OTHER -> NaN

\* The filter callback of fetchPoints.
KeepPoint_Either(p) == NumberIsFinite(p.t) \/ NumberIsFinite(p.c)

KeepPoint(p) == NumberIsFinite(p.t) /\ NumberIsFinite(p.c)

\* The map callback of fetchPoints.
ToPlotPoint(p) == [x |-> UnaryPlus(p.t), y |-> UnaryPlus(p.c)]

\* .filter(...).map(...) over a list of objects.
MapPoints(list) ==
    LET kept == SelectSeq(list, KeepPoint)
    IN  [i \in 1..Len(kept) |-> ToPlotPoint(kept[i])]

\* A parsed response body: shape "points" is an object with a points array,
\* "candles" an object with a candles array and no points field, "bare" a
\* top-level array, "null" the JSON value null.
Json(shape, list) == [shape |-> shape, list |-> list]

\* (json.points || []): the points array, or [] when the field is missing.
PointsOf(json) == IF json.shape = "points" THEN json.list ELSE << >>

\* Whether computing pts throws a TypeError: json is null (json.points), or an
\* entry is null (p.t in the filter callback).
MappingThrows(json) ==
    \/ json.shape = "null"
    \/ \E i \in 1..Len(PointsOf(json)) : ~PointsOf(json)[i].obj

\* pts as fetchPoints returns it, for a body on which it does not throw.
PtsOf(json) == MapPoints(PointsOf(json))

----------------------------------------------------------------------------
\* Program state

VARIABLES
    state,      \* the state object: symbol, range, interval, chart
    inFlight,   \* the busy flag
    opacity,    \* canvas.style.opacity
    ui,         \* titleEl.textContent and the buttons carrying class "active"
    loaded,     \* whether DOMContentLoaded has been dispatched
    calls,      \* the suspended runs of refresh(), each at one of its awaits
    issued,     \* history: number of fetch() calls made
    triggers,   \* history: number of events handled (load, clicks)
    renders,    \* history: number of charts constructed
    done,       \* history: number of refresh() runs that reached finally
    live,       \* history: the charts constructed and not destroyed, each
                \* named by the run of refresh() that built it
    prevT,      \* history: the event handled before the last one
    lastT,      \* history: the last event handled: the selection its handler
                \* set, the busy flag at its refresh() call, the fetches issued
                \* and charts constructed so far
    outcome,    \* history: how the last finished refresh() run went
    arg,        \* input of a directly applied pure function
    ret         \* its result

progVars == <<state, inFlight, opacity, ui, loaded, calls>>
histVars == <<issued, triggers, renders, done, live, prevT, lastT, outcome>>
fnVars == <<arg, ret>>
vars == <<state, inFlight, opacity, ui, loaded, calls,
          issued, triggers, renders, done, live, prevT, lastT, outcome, arg, ret>>

\* state.chart === null
Null == [kind |-> "null"]

\* The request URL built by fetchPoints from the state object.
Url(st) == [symbol |-> st.symbol, range |-> st.range, interval |-> st.interval]

Selection(st) == Url(st)

\* The dataset label `${state.symbol} price`.
Label(sym) == <<sym, " price">>

\* The state object as the script initialises it.
InitState == [symbol |-> "TSM", range |-> "ytd", interval |-> "1d", chart |-> Null]

\* What refresh() reads and writes when called.
Machine ==
    [state |-> state, inFlight |-> inFlight, opacity |-> opacity,
     calls |-> calls, issued |-> issued]

NoTrigger ==
    [kind |-> "none", sel |-> Url(InitState), busy |-> FALSE, id |-> 0,
     renders |-> 0]

NoOutcome ==
    [id |-> 0, kind |-> "none", res |-> "none", url |-> Url(InitState),
     pts |-> << >>]

\* A title or summary text of a news item: a string, or undefined.
Text(str) == [def |-> TRUE, s |-> str]
Missing == [def |-> FALSE, s |-> ""]

\* item.title / item.summary: undefined (has = FALSE), or an object with
\* optional en and fr fields.
Field(has, en, fr) == [has |-> has, en |-> en, fr |-> fr]

NoArg ==
    [fn |-> "none", r1 |-> "ytd", r2 |-> "ytd", list |-> << >>,
     field |-> Field(FALSE, Missing, Missing), lang |-> "EN",
     text |-> << >>, limit |-> 0]

NoRet ==
    [applied |-> FALSE, u1 |-> "", f1 |-> "", u2 |-> "", f2 |-> "", pts |-> << >>,
     ptsCandles |-> << >>, ptsBare |-> << >>,
     picked |-> Missing, picked2 |-> Missing, picked2Threw |-> FALSE,
     stripped |-> << >>, preview |-> << >>]

Init ==
    /\ state = InitState
    /\ inFlight = FALSE
    /\ opacity = ""
    /\ ui = [title |-> "TSM", symbolBtn |-> "TSM", rangeBtn |-> "ytd"]
    /\ loaded = FALSE
    /\ calls = {}
    /\ issued = 0
    /\ triggers = 0
    /\ renders = 0
    /\ done = 0
    /\ live = {}
    /\ prevT = NoTrigger
    /\ lastT = NoTrigger
    /\ outcome = NoOutcome
    /\ arg = NoArg
    /\ ret = NoRet

----------------------------------------------------------------------------
\* refresh(), up to its first await

\* refresh() without the guard of its first line.
refresh_NoGuard(m) ==
    [m EXCEPT !.inFlight = TRUE,
              !.opacity = "0.6",
              !.issued = @ + 1,
              !.calls = @ \cup {[id |-> m.issued + 1, url |-> Url(m.state),
                                 at |-> "fetch", res |-> "pending"]}]

\* if (inFlight) return; inFlight = true; opacity = 0.6; fetchPoints() builds
\* the URL from the state object, calls fetch and suspends.
refresh(m) ==
    IF m.inFlight
    THEN m
    ELSE [m EXCEPT !.inFlight = TRUE,
                   !.opacity = "0.6",
                   !.issued = @ + 1,
                   !.calls = @ \cup {[id |-> m.issued + 1, url |-> Url(m.state),
                                      at |-> "fetch", res |-> "pending"]}]

\* An event handler: the state object as the handler left it, then refresh().
Handle(kind, st) ==
    LET pre == [Machine EXCEPT !.state = st]
        post == refresh(pre)
    IN  /\ triggers < MaxTriggers
        /\ state' = post.state
        /\ inFlight' = post.inFlight
        /\ opacity' = post.opacity
        /\ calls' = post.calls
        /\ issued' = post.issued
        /\ triggers' = triggers + 1
        /\ prevT' = lastT
        /\ lastT' = [kind |-> kind, sel |-> Selection(st), busy |-> inFlight,
                      id |-> post.issued, renders |-> renders]
        /\ UNCHANGED <<renders, done, live, outcome, arg, ret>>

\* document.addEventListener('DOMContentLoaded', refresh)
DOMContentLoaded ==
    /\ ~loaded
    /\ loaded' = TRUE
    /\ Handle("load", state)
    /\ UNCHANGED ui

\* The symbol handler as if it also reset the range to the default.
SymbolClick_ResetsRange(s) ==
    /\ Handle("symbol", [state EXCEPT !.symbol = s, !.range = "ytd",
                                      !.interval = "1d"])
    /\ ui' = [ui EXCEPT !.symbolBtn = s, !.title = s]
    /\ UNCHANGED loaded

\* The click handler of a symbol pill.
SymbolClick(s) ==
    /\ Handle("symbol", [state EXCEPT !.symbol = s])
    /\ ui' = [ui EXCEPT !.symbolBtn = s, !.title = s]
    /\ UNCHANGED loaded

\* The range handler as if it left the selection alone while a fetch is in
\* flight.
RangeClick_SkipsWhenBusy(b) ==
    /\ Handle("range", IF inFlight
                       THEN state
                       ELSE [state EXCEPT !.range = b.range,
                                          !.interval = b.interval])
    /\ ui' = [ui EXCEPT !.rangeBtn = b.range]
    /\ UNCHANGED loaded

\* The click handler of a range button.
RangeClick(b) ==
    /\ Handle("range", [state EXCEPT !.range = b.range, !.interval = b.interval])
    /\ ui' = [ui EXCEPT !.rangeBtn = b.range]
    /\ UNCHANGED loaded

----------------------------------------------------------------------------
\* buildChart and the rest of refresh()

\* chart.destroy()
Destroy(ch) == IF ch.kind = "null" THEN ch ELSE [ch EXCEPT !.destroyed = TRUE]

\* new Chart(ctx, {...}): label, axis unit and tooltip format are read from the
\* state object when the chart is built.  id and from are history: the run of
\* refresh() that built the chart and the URL its data was fetched from.
NewChart(st, pts, c) ==
    [kind |-> "chart", id |-> c.id, from |-> c.url,
     label |-> Label(st.symbol), data |-> pts,
     unit |-> pickTimeUnit(st.range),
     tooltipFormat |-> pickTooltipFormat(st.range),
     destroyed |-> FALSE]

\* buildChart(pts): destroy the current chart, if any, then construct the new
\* one.  constructs = FALSE is the Chart constructor throwing, which leaves
\* state.chart referring to the destroyed chart.
buildChart(st, pts, c, constructs) ==
    [st EXCEPT !.chart = IF constructs THEN NewChart(st, pts, c) ELSE Destroy(@)]

\* catch (e) { console.error(...) } with the chart cleared.
catch_ClearsChart(st) == [st EXCEPT !.chart = Null]

\* catch (e) { console.error(...) }: the state object is left as it is.
catch(st) == st

\* finally as if its two assignments stood at the end of the try block.
finally_OnlyOnSuccess(threw) ==
    IF threw
    THEN [opacity |-> opacity, inFlight |-> inFlight]
    ELSE [opacity |-> "1", inFlight |-> FALSE]

\* finally without the opacity assignment.
finally_KeepsDim(threw) == [opacity |-> opacity, inFlight |-> FALSE]

\* finally { canvas.style.opacity = 1; inFlight = false; }
finally(threw) == [opacity |-> "1", inFlight |-> FALSE]

\* buildChart as if it never destroyed the chart it replaces.
DestroyedBy_Nothing(st) == {}

\* if (state.chart) state.chart.destroy(): the charts buildChart destroys.
DestroyedBy(st) == IF st.chart.kind = "chart" THEN {st.chart.id} ELSE {}

\* The end of a run of refresh() as if catch started the fetch again.
Finish_Retry(c, st, kind, res, pts) ==
    LET threw == kind # "drawn"
        built == kind \in {"drawn", "chart"}
    IN  /\ state' = st
        /\ opacity' = (IF threw THEN "0.6" ELSE "1")
        /\ inFlight' = threw
        /\ calls' = (calls \ {c}) \cup
                      (IF threw
                       THEN {[id |-> issued + 1, url |-> Url(st), at |-> "fetch",
                              res |-> "pending"]}
                       ELSE {})
        /\ issued' = issued + (IF threw THEN 1 ELSE 0)
        /\ done' = done + 1
        /\ renders' = renders + (IF kind = "drawn" THEN 1 ELSE 0)
        /\ live' = (IF built
                    THEN (live \ DestroyedBy(state))
                         \cup (IF kind = "drawn" THEN {c.id} ELSE {})
                    ELSE live)
        /\ outcome' = [id |-> c.id, kind |-> kind, res |-> res, url |-> c.url,
                       pts |-> pts]
        /\ UNCHANGED <<ui, loaded, triggers, prevT, lastT, arg, ret>>

\* The end of a run of refresh(): catch when something threw, then finally.
\* st is the state object as the try block left it; buildChart has run when
\* kind is "drawn" (the chart was constructed) or "chart" (the constructor
\* threw).  No fetch is started here.
Finish(c, st, kind, res, pts) ==
    LET threw == kind # "drawn"
        built == kind \in {"drawn", "chart"}
        fin == finally(threw)
    IN  /\ state' = (IF threw THEN catch(st) ELSE st)
        /\ opacity' = fin.opacity
        /\ inFlight' = fin.inFlight
        /\ calls' = calls \ {c}
        /\ done' = done + 1
        /\ renders' = renders + (IF kind = "drawn" THEN 1 ELSE 0)
        /\ live' = (IF built
                    THEN (live \ DestroyedBy(state))
                         \cup (IF kind = "drawn" THEN {c.id} ELSE {})
                    ELSE live)
        /\ outcome' = [id |-> c.id, kind |-> kind, res |-> res, url |-> c.url,
                       pts |-> pts]
        /\ UNCHANGED <<ui, loaded, issued, triggers, prevT, lastT, arg, ret>>

\* Transport failure: the promise of fetch() rejects.
FetchReject(c) ==
    /\ c \in calls
    /\ c.at = "fetch"
    /\ Finish(c, state, "transport", "rejected", << >>)

\* The promise of fetch() resolves with a response: a response that is not ok
\* makes fetchPoints throw, an ok one has res.json() called and awaited.
FetchResolve(c, ok) ==
    /\ c \in calls
    /\ c.at = "fetch"
    /\ IF ok
       THEN /\ calls' = (calls \ {c}) \cup {[c EXCEPT !.at = "json", !.res = "ok"]}
            /\ UNCHANGED <<state, inFlight, opacity, ui, loaded>>
            /\ UNCHANGED histVars
            /\ UNCHANGED fnVars
       ELSE Finish(c, state, "protocol", "notok", << >>)

\* res.json() rejects: the body is not JSON.
JsonReject(c) ==
    /\ c \in calls
    /\ c.at = "json"
    /\ Finish(c, state, "parse", c.res, << >>)

\* res.json() resolves: the points are filtered and mapped, fetchPoints
\* returns them and refresh() hands them to buildChart.
JsonResolve(c, json, constructs) ==
    /\ c \in calls
    /\ c.at = "json"
    /\ IF MappingThrows(json)
       THEN Finish(c, state, "type", c.res, << >>)
       ELSE Finish(c, buildChart(state, PtsOf(json), c, constructs),
                   IF constructs THEN "drawn" ELSE "chart", c.res, PtsOf(json))

\* Response bodies the server is taken to send.
SampleBodies ==
    { Json("points", <<Point(Num(1), Num(10)), Point(Num(2), Num(11))>>),
      Json("points", <<Point(Num(1), Num(10)), Point(Str, Num(11)),
                       Point(Num(2), NaN)>>),
      Json("points", <<Point(Str, Num(11)), Point(Num(2), NaN)>>),
      Json("points", << >>),
      Json("points", <<Point(Num(1), Num(10)), NullEntry>>),
      Json("candles", <<Point(Num(1), Num(10))>>),
      Json("bare", <<Point(Num(1), Num(10))>>),
      Json("null", << >>) }

\* A pending promise settles.
Settle ==
    \E c \in calls :
        \/ FetchReject(c)
        \/ \E ok \in BOOLEAN : FetchResolve(c, ok)
        \/ JsonReject(c)
        \/ \E json \in SampleBodies, constructs \in BOOLEAN :
               JsonResolve(c, json, constructs)

Next ==
    \/ DOMContentLoaded
    \/ \E s \in Symbols : SymbolClick(s)
    \/ \E b \in RangeButtons : RangeClick(b)
    \/ \E c \in calls : FetchReject(c)
    \/ \E c \in calls, ok \in BOOLEAN : FetchResolve(c, ok)
    \/ \E c \in calls : JsonReject(c)
    \/ \E c \in calls, json \in SampleBodies, constructs \in BOOLEAN :
           JsonResolve(c, json, constructs)

Spec == Init /\ [][Next]_vars

\* Every issued fetch, and the reading of its body, eventually settles.
FairSpec == Spec /\ WF_vars(Settle)

----------------------------------------------------------------------------
\* The pure functions applied directly to inputs drawn from bounded sets

TimeValues == {Num(1), Num(2), Str, StrNum(2), Undefined}
CloseValues == {Num(10), Num(11), NaN, Infinity, StrEmpty}

RawPoints == {Point(t, c) : t \in TimeValues, c \in CloseValues}

\* The lists of n entries.
RawLists(n) == [1..n -> RawPoints]

\* JavaScript truthiness of a text: a non-empty string.
Truthy(v) == v.def /\ v.s # ""

\* a || b
Or(a, b) == IF Truthy(a) THEN a ELSE b

\* String.prototype.toLowerCase on a language code.
ToLowerCase(lang) ==
    CASE lang \in {"EN", "en"} -> "en"
      [] lang \in {"FR", "fr"} -> "fr"
      [] lang \in {"DE", "de"} -> "de"

\* obj[key] on a title or summary object.
Get(field, key) ==
    CASE key = "en" -> field.en
      [] key = "fr" -> field.fr
      [] OTHER -> Missing

\* makeCard's pick as if French were tried after English.
makeCardPick_FrLast(field, lang) ==
    IF ~field.has
    THEN Text("")
    ELSE Or(Or(Or(Get(field, ToLowerCase(lang)), Get(field, "en")),
               Get(field, "fr")),
            Text(""))

\* makeCard: (item.title && (item.title[lang.toLowerCase()] || item.title.en))
\* || "", and the same for item.summary.
makeCardPick(field, lang) ==
    IF ~field.has
    THEN Text("")
    ELSE Or(Or(Get(field, ToLowerCase(lang)), Get(field, "en")), Text(""))

\* The second DOMContentLoaded listener: story.title[lang] ||
\* story.title["en"], lang already lower-cased; a TypeError when the object
\* is undefined.
storyPickThrows(field) == ~field.has

storyPick(field, lang) == Or(Get(field, lang), Get(field, "en"))

\* data-lang of the language menu, and one code no item carries.
Langs == {"EN", "FR", "DE"}

EnTexts == {Missing, Text(""), Text("english")}
FrTexts == {Missing, Text(""), Text("francais")}

Fields ==
    {Field(FALSE, Missing, Missing)}
    \cup {Field(TRUE, en, fr) : en \in EnTexts, fr \in FrTexts}

\* Texts are sequences of characters: "a" for any character that is not
\* white space, " " and "\n" for white space.  A text stands for the
\* textContent of the markup handed to textPreview.
IsSpace(ch) == ch \in {" ", "\n"}

\* .replace(/\s+/g, " "): every run of white space becomes one space.
RECURSIVE CollapseSpaces(_)
CollapseSpaces(t) ==
    IF t = << >>
    THEN << >>
    ELSE LET rest == CollapseSpaces(Tail(t))
         IN  IF ~IsSpace(Head(t))
             THEN <<Head(t)>> \o rest
             ELSE IF rest # << >> /\ Head(rest) = " "
                  THEN rest
                  ELSE <<" ">> \o rest

\* .trim()
RECURSIVE TrimStart(_)
TrimStart(t) ==
    IF t # << >> /\ IsSpace(Head(t)) THEN TrimStart(Tail(t)) ELSE t

RECURSIVE TrimEnd(_)
TrimEnd(t) ==
    IF t # << >> /\ IsSpace(t[Len(t)])
    THEN TrimEnd(SubSeq(t, 1, Len(t) - 1))
    ELSE t

Trim(t) == TrimEnd(TrimStart(t))

\* stripped, as textPreview computes it from the text content.
Stripped(text) == Trim(CollapseSpaces(text))

\* cut.lastIndexOf(" "): the 0-based index of the last space, or -1.
LastIndexOfSpace(cut) ==
    LET at == {i \in 1..Len(cut) : cut[i] = " "}
    IN  IF at = {} THEN -1 ELSE (CHOOSE i \in at : \A j \in at : j <= i) - 1

\* The least index a space must exceed for the cut to be made at it.
WordCutMin == 40

\* lastSpace > 40
CutsAtSpace(lastSpace) == lastSpace > WordCutMin

\* The string literal appended to a shortened text.
Ellipsis == <<"U+00E2", "U+20AC", "U+00A6">>

\* textPreview(text, limit)
textPreview(text, limit) ==
    IF text = << >>
    THEN << >>
    ELSE LET stripped == Stripped(text)
             cut == SubSeq(stripped, 1, limit)
             lastSpace == LastIndexOfSpace(cut)
         IN  IF Len(stripped) <= limit
             THEN stripped
             ELSE (IF CutsAtSpace(lastSpace) THEN SubSeq(cut, 1, lastSpace) ELSE cut)
                  \o Ellipsis

\* Texts of n characters with at most two white-space characters, all spaces
\* or all line breaks.
PreviewTexts(n) ==
    {[i \in 1..n |-> IF i \in ws THEN sp ELSE "a"] :
        ws \in {{p, q} : p, q \in 0..n}, sp \in {" ", "\n"}}

PreviewLimits == {44}

FnInit ==
    /\ state = InitState
    /\ inFlight = FALSE
    /\ opacity = ""
    /\ ui = [title |-> "TSM", symbolBtn |-> "TSM", rangeBtn |-> "ytd"]
    /\ loaded = FALSE
    /\ calls = {}
    /\ issued = 0
    /\ triggers = 0
    /\ renders = 0
    /\ done = 0
    /\ live = {}
    /\ prevT = NoTrigger
    /\ lastT = NoTrigger
    /\ outcome = NoOutcome
    /\ \/ \E a, b \in Ranges :
              arg = [NoArg EXCEPT !.fn = "pick", !.r1 = a, !.r2 = b]
       \/ \E n \in 0..MaxLen : \E l \in RawLists(n) :
              arg = [NoArg EXCEPT !.fn = "map", !.list = l]
       \/ \E n \in 0..MaxLen : \E l \in RawLists(n) :
              arg = [NoArg EXCEPT !.fn = "shapes", !.list = l]
       \/ \E f \in Fields, l \in Langs :
              arg = [NoArg EXCEPT !.fn = "lang", !.field = f, !.lang = l]
       \/ \E n \in 0..MaxText : \E t \in PreviewTexts(n), l \in PreviewLimits :
              arg = [NoArg EXCEPT !.fn = "preview", !.text = t, !.limit = l]
    /\ ret = NoRet

\* pickTimeUnit and pickTooltipFormat on two ranges.
ApplyPick ==
    /\ arg.fn = "pick"
    /\ ~ret.applied
    /\ ret' = [NoRet EXCEPT !.applied = TRUE,
                            !.u1 = pickTimeUnit(arg.r1),
                            !.f1 = pickTooltipFormat(arg.r1),
                            !.u2 = pickTimeUnit(arg.r2),
                            !.f2 = pickTooltipFormat(arg.r2)]
    /\ UNCHANGED <<progVars, histVars, arg>>

\* fetchPoints' filter and map on the body {points: list}.
ApplyMap ==
    /\ arg.fn = "map"
    /\ ~ret.applied
    /\ ret' = [NoRet EXCEPT !.applied = TRUE,
                            !.pts = PtsOf(Json("points", arg.list))]
    /\ UNCHANGED <<progVars, histVars, arg>>

\* fetchPoints' extraction, filter and map on one list carried by each of the
\* three body shapes: {points: list}, {candles: list} and the bare list.
ApplyShapes ==
    /\ arg.fn = "shapes"
    /\ ~ret.applied
    /\ ret' = [NoRet EXCEPT !.applied = TRUE,
                            !.pts = PtsOf(Json("points", arg.list)),
                            !.ptsCandles = PtsOf(Json("candles", arg.list)),
                            !.ptsBare = PtsOf(Json("bare", arg.list))]
    /\ UNCHANGED <<progVars, histVars, arg>>

\* The two places that pick a title or summary for a language.
ApplyLang ==
    /\ arg.fn = "lang"
    /\ ~ret.applied
    /\ ret' = [NoRet EXCEPT
                 !.applied = TRUE,
                 !.picked = makeCardPick(arg.field, arg.lang),
                 !.picked2Threw = storyPickThrows(arg.field),
                 !.picked2 = IF storyPickThrows(arg.field)
                             THEN Missing
                             ELSE storyPick(arg.field, ToLowerCase(arg.lang))]
    /\ UNCHANGED <<progVars, histVars, arg>>

\* textPreview on a text and a limit.
ApplyPreview ==
    /\ arg.fn = "preview"
    /\ ~ret.applied
    /\ ret' = [NoRet EXCEPT !.applied = TRUE,
                            !.stripped = Stripped(arg.text),
                            !.preview = textPreview(arg.text, arg.limit)]
    /\ UNCHANGED <<progVars, histVars, arg>>

FnNext == ApplyPick \/ ApplyMap \/ ApplyShapes \/ ApplyLang \/ ApplyPreview

FnSpec == FnInit /\ [][FnNext]_vars

----------------------------------------------------------------------------
\* Properties

\* C1: at most one fetch is outstanding in every reachable state, so at most
\* one run of refresh() is suspended and two response-handling continuations
\* never overlap; a run is suspended exactly while the busy flag is set.
C1_AtMostOneFetch ==
    /\ Cardinality(calls) <= 1
    /\ (calls # {}) <=> inFlight

\* A click was dropped by the guard while the response body was being read.
C1_Witness == lastT.busy /\ \E c \in calls : c.at = "json"

\* C2: refresh() called while the busy flag is set is a no-op: the chart
\* handle, the selection the handler had set, the busy flag and the opacity
\* are as they were, and no request is issued.
C2_BusyRefreshIsNoOp ==
    [][(triggers' # triggers /\ inFlight) =>
          /\ state'.chart = state.chart
          /\ Selection(state') = lastT'.sel
          /\ inFlight' = inFlight
          /\ opacity' = opacity
          /\ calls' = calls
          /\ issued' = issued]_vars

\* A range click was dropped while a fetch for another range is outstanding.
C2_Witness ==
    /\ lastT.busy
    /\ lastT.kind = "range"
    /\ \E c \in calls : c.url.range # state.range

\* C3 as claimed: a rendered chart's label, x-axis unit and tooltip format are
\* those of the selection captured in the URL its data was fetched from.
C3_Original ==
    (state.chart.kind = "chart" /\ ~state.chart.destroyed) =>
        /\ state.chart.label = Label(state.chart.from.symbol)
        /\ state.chart.unit = pickTimeUnit(state.chart.from.range)
        /\ state.chart.tooltipFormat = pickTooltipFormat(state.chart.from.range)

\* C4: a refresh that fails because fetch rejects or the response is not ok
\* leaves the chart handle and everything in the chart as before.
C4_FailureKeepsChart ==
    [][(done' = done + 1 /\ outcome'.res \in {"rejected", "notok"}) =>
          state'.chart = state.chart]_vars

\* A drawn chart with data has outlived a later refresh that failed.
C4_Witness ==
    /\ outcome.res \in {"rejected", "notok"}
    /\ state.chart.kind = "chart"
    /\ ~state.chart.destroyed
    /\ state.chart.data # << >>
    /\ state.chart.id < outcome.id

\* C5 as claimed: an ok response whose result set comes out empty (fetchPoints
\* returns no points, nothing else fails) leaves a chart that shows data as it
\* was.
C5_Original ==
    [][(/\ done' = done + 1
        /\ outcome'.kind = "drawn"
        /\ outcome'.pts = << >>
        /\ state.chart.kind = "chart"
        /\ state.chart.data # << >>) => state'.chart = state.chart]_vars

\* C6: once the busy flag is set it is eventually cleared, however the run of
\* refresh() ends, provided every pending promise settles.
C6_BusyEventuallyClears == inFlight ~> ~inFlight

\* The Chart constructor threw and the busy flag is clear again.
C6_Witness == outcome.kind = "chart" /\ ~inFlight /\ opacity = "1"

\* Two symbol clicks in a row, the second for another symbol and dropped by
\* the guard; no event has been handled since.
RapidPair ==
    /\ prevT.kind = "symbol"
    /\ ~prevT.busy
    /\ lastT.kind = "symbol"
    /\ lastT.busy
    /\ lastT.sel.symbol # prevT.sel.symbol

\* C7: after two rapid symbol clicks no request is issued beyond the first
\* click's, which is for the first symbol; at most one chart is constructed,
\* exactly one when that response is drawn, and its data is the first symbol's.
C7_SecondClickDropped ==
    RapidPair =>
        /\ issued = prevT.id
        /\ \A c \in calls : c.id = prevT.id /\ c.url = prevT.sel
        /\ calls # {} => renders = lastT.renders
        /\ calls = {} =>
              /\ outcome.id = prevT.id
              /\ outcome.url = prevT.sel
              /\ renders = lastT.renders + (IF outcome.kind = "drawn" THEN 1 ELSE 0)
              /\ outcome.kind = "drawn" =>
                    /\ state.chart.id = prevT.id
                    /\ state.chart.from.symbol = prevT.sel.symbol
                    /\ state.chart.from.symbol # state.symbol
                    /\ state.chart.data = outcome.pts

\* The first symbol's response was drawn after the second click was dropped.
C7_Witness == RapidPair /\ calls = {} /\ outcome.kind = "drawn"

\* C8 as claimed: two ranges of the enum get the same granularity exactly when
\* they get the same tooltip format.
C8_Original ==
    (ret.applied /\ arg.fn = "pick" /\ arg.r1 \in RangeEnum /\ arg.r2 \in RangeEnum)
        => ((ret.u1 = ret.u2) <=> (ret.f1 = ret.f2))

\* C8 amended: ranges of the enum with the same granularity get the same
\* tooltip format; ranges with the same tooltip format have the same
\* granularity except 5y (month) and max (year).
C8_TooltipCoarsensUnit ==
    (ret.applied /\ arg.fn = "pick" /\ arg.r1 \in RangeEnum /\ arg.r2 \in RangeEnum)
        => /\ (ret.u1 = ret.u2) => (ret.f1 = ret.f2)
           /\ (ret.f1 = ret.f2 /\ ret.u1 # ret.u2) => {arg.r1, arg.r2} = {"5y", "max"}

\* 5y and max: one tooltip format, two granularities.
C8_Witness ==
    /\ ret.applied
    /\ arg.r1 = "5y"
    /\ arg.r2 = "max"
    /\ ret.f1 = ret.f2
    /\ ret.u1 # ret.u2

\* C9: the granularity is hour for 1d and 5d, day for 1mo, 6mo, ytd and 1y,
\* month for 5y and year for every other token; the tooltip format has the
\* time of day for 1d and 5d, the date for 1mo, 6mo, ytd and 1y, and month and
\* year for every other token.
C9_GranularityTable ==
    (ret.applied /\ arg.fn = "pick") =>
        /\ arg.r1 \in {"1d", "5d"} =>
              ret.u1 = "hour" /\ ret.f1 = "MMM d, h:mmaaa"
        /\ arg.r1 \in {"1mo", "6mo", "ytd", "1y"} =>
              ret.u1 = "day" /\ ret.f1 = "MMM d, yyyy"
        /\ arg.r1 = "5y" => ret.u1 = "month"
        /\ arg.r1 \notin {"1d", "5d", "1mo", "6mo", "ytd", "1y", "5y"} =>
              ret.u1 = "year"
        /\ arg.r1 \notin {"1d", "5d", "1mo", "6mo", "ytd", "1y"} =>
              ret.f1 = "MMM yyyy"

\* An unrecognised token got year and month+year.
C9_Witness ==
    /\ ret.applied
    /\ arg.fn = "pick"
    /\ arg.r1 = "2y"
    /\ ret.u1 = "year"
    /\ ret.f1 = "MMM yyyy"

\* The payload of the spec's scenario.
ExampleList ==
    <<Point(Num(1), Num(10)), Point(Str, Num(11)), Point(Num(2), NaN)>>

\* C10: the mapped points are exactly the entries whose t and c are both
\* finite numbers, each as {x: t, y: c}, in their original order, never more
\* than the input; the example list maps to [{x: 1, y: 10}].
C10_MapKeepsFiniteInOrder ==
    (ret.applied /\ arg.fn = "map") =>
        LET in == arg.list
            out == ret.pts
            good == {i \in 1..Len(in) :
                        in[i].t.tag = "number" /\ in[i].c.tag = "number"}
            rank(i) == Cardinality({j \in good : j <= i})
        IN  /\ Len(out) = Cardinality(good)
            /\ Len(out) <= Len(in)
            /\ \A i \in good : out[rank(i)] = [x |-> in[i].t, y |-> in[i].c]
            /\ in = ExampleList => out = <<[x |-> Num(1), y |-> Num(10)]>>

\* The example list was mapped to its one finite point.
C10_Witness ==
    /\ ret.applied
    /\ arg.list = ExampleList
    /\ ret.pts = <<[x |-> Num(1), y |-> Num(10)]>>

\* C11 as claimed: one point list yields the same plotted points whether it
\* arrives as {points: list}, as {candles: list} or as a bare list.
C11_Original ==
    (ret.applied /\ arg.fn = "shapes") =>
        /\ ret.ptsCandles = ret.pts
        /\ ret.ptsBare = ret.pts

\* C12: between handlers the canvas is at opacity 0.6 exactly while the busy
\* flag is set, and once a refresh has finished, by success or by failure, the
\* opacity is 1 whenever the flag is clear.
C12_DimIffBusy ==
    /\ inFlight <=> opacity = "0.6"
    /\ (done > 0 /\ ~inFlight) => opacity = "1"
    /\ (done = 0 /\ ~inFlight) => opacity = ""

\* A failed refresh restored the opacity and a later one dimmed it again.
C12_Witness ==
    /\ outcome.kind \in {"transport", "protocol", "parse", "type", "chart"}
    /\ inFlight
    /\ opacity = "0.6"
    /\ \E c \in calls : c.id > outcome.id

\* C13: at most one chart is live in every reachable state, and it is the
\* one state.chart refers to: buildChart destroys the chart it replaces.
C13_OneLiveChart ==
    /\ Cardinality(live) <= 1
    /\ live = (IF state.chart.kind = "chart" /\ ~state.chart.destroyed
               THEN {state.chart.id}
               ELSE {})

\* A second chart has replaced the first, which was destroyed.
C13_Witness ==
    /\ renders >= 2
    /\ state.chart.kind = "chart"
    /\ live = {state.chart.id}

\* C14: a fetch is started only by the handler of a trigger, one at most per
\* trigger: the fetches issued never exceed the triggers handled, and no step
\* other than a trigger's issues one (no retry after a failure).
C14_FetchOnlyOnTrigger ==
    /\ [](issued <= triggers)
    /\ [][issued' # issued =>
            (triggers' = triggers + 1 /\ issued' = issued + 1)]_vars

\* A refresh failed, a trigger had been dropped, and nothing is in flight.
C14_Witness ==
    /\ outcome.kind \in {"transport", "protocol"}
    /\ calls = {}
    /\ issued < triggers

\* C15: a symbol click leaves range and interval as they were; a range click
\* leaves the symbol as it was and sets range and interval to one button's
\* pair; no handler changes the chart handle, and none clears the busy flag
\* (refresh() alone sets it).
C15_MutatorsOwnAxis ==
    [][(triggers' # triggers) =>
          /\ lastT'.kind = "symbol" =>
                /\ state'.range = state.range
                /\ state'.interval = state.interval
          /\ lastT'.kind = "range" =>
                /\ state'.symbol = state.symbol
                /\ [range |-> state'.range, interval |-> state'.interval]
                      \in RangeButtons
          /\ state'.chart = state.chart
          /\ inFlight']_vars

\* A range click kept the symbol an earlier click had set, and a symbol click
\* before it had kept a range that is not the initial one.
C15_Witness ==
    /\ prevT.kind = "symbol"
    /\ prevT.sel.symbol = "NVDA"
    /\ prevT.sel.range = "1d"
    /\ lastT.kind = "range"
    /\ state.symbol = "NVDA"
    /\ state.range = "5y"
    /\ state.interval = "1wk"

\* C16: the selection is that of the controls last clicked (the buttons
\* marked active), whether or not the click's refresh was dropped by the
\* guard.  The markup's initially active buttons are taken to be the script's
\* defaults.
C16_SelectionFollowsClicks ==
    /\ state.symbol = ui.symbolBtn
    /\ state.range = ui.rangeBtn
    /\ [range |-> state.range, interval |-> state.interval]
          \in RangeButtons \cup {[range |-> "ytd", interval |-> "1d"]}
    /\ lastT.kind # "none" => Selection(state) = lastT.sel

\* Nothing is in flight and the chart drawn comes from a selection other than
\* the current one, the last click having been dropped by the guard.
C16_Witness ==
    /\ ~inFlight
    /\ calls = {}
    /\ lastT.busy
    /\ lastT.kind \in {"symbol", "range"}
    /\ state.chart.kind = "chart"
    /\ ~state.chart.destroyed
    /\ state.chart.from # Selection(state)

\* C17 as claimed: the picked title or summary is empty only when none of
\* the English, the selected-language and the French field has a text.
C17_Original ==
    (ret.applied /\ arg.fn = "lang") =>
        /\ ~Truthy(ret.picked) =>
              /\ ~Truthy(arg.field.en)
              /\ ~Truthy(Get(arg.field, ToLowerCase(arg.lang)))
              /\ ~Truthy(arg.field.fr)
        /\ (~ret.picked2Threw /\ ~Truthy(ret.picked2)) =>
              /\ ~Truthy(arg.field.en)
              /\ ~Truthy(Get(arg.field, ToLowerCase(arg.lang)))
              /\ ~Truthy(arg.field.fr)

\* C17 amended: the chain is selected language, then English: the selected
\* language's text when it has one, else the English text when there is one,
\* else nothing (the empty string in makeCard, the English field's falsy
\* value in the listener); French is used only when it is the selected
\* language.
C17_LocalizedThenEnglish ==
    (ret.applied /\ arg.fn = "lang" /\ arg.field.has) =>
        LET loc == IF arg.lang = "EN" THEN arg.field.en
                   ELSE IF arg.lang = "FR" THEN arg.field.fr
                   ELSE Missing
            hasLoc == loc.def /\ loc.s # ""
            hasEn == arg.field.en.def /\ arg.field.en.s # ""
        IN  /\ hasLoc => (ret.picked = loc /\ ret.picked2 = loc)
            /\ (~hasLoc /\ hasEn) =>
                  (ret.picked = arg.field.en /\ ret.picked2 = arg.field.en)
            /\ (~hasLoc /\ ~hasEn) =>
                  (ret.picked = Text("") /\ ret.picked2 = arg.field.en)
            /\ ~ret.picked2Threw

\* English selected, only the French text exists, and nothing was picked.
C17_Witness ==
    /\ ret.applied
    /\ arg.fn = "lang"
    /\ arg.lang = "EN"
    /\ arg.field = Field(TRUE, Missing, Text("francais"))
    /\ ret.picked = Text("")
    /\ ret.picked2 = Missing

\* The stripped text is the input's with every run of white space made one
\* space and none left at either end.
StrippedIsCollapsed ==
    LET st == ret.stripped
        nonSpace(t) == Cardinality({i \in 1..Len(t) : t[i] = "a"})
    IN  /\ \A i \in 1..Len(st) : st[i] \in {"a", " "}
        /\ \A i \in 1..Len(st) - 1 : ~(st[i] = " " /\ st[i + 1] = " ")
        /\ st # << >> => (st[1] = "a" /\ st[Len(st)] = "a")
        /\ nonSpace(st) = nonSpace(arg.text)

\* What textPreview returns: a collapsed text of at most limit characters
\* unchanged; for a longer one a prefix then the appended literal, the prefix
\* ending immediately before the last space among the first limit characters
\* when that space lies beyond index 40, and being exactly the first limit
\* characters otherwise.
PreviewCutsAtLateSpaceOrLimit ==
    (ret.applied /\ arg.fn = "preview") =>
        LET st == ret.stripped
            out == ret.preview
            spaces == {i \in 1..arg.limit : i <= Len(st) /\ st[i] = " "}
            late == {i \in spaces : i - 1 > WordCutMin /\ \A j \in spaces : j <= i}
        IN  /\ StrippedIsCollapsed
            /\ Len(st) <= arg.limit => out = st
            /\ Len(st) > arg.limit =>
                  /\ \A i \in late : out = SubSeq(st, 1, i - 1) \o Ellipsis
                  /\ late = {} => out = SubSeq(st, 1, arg.limit) \o Ellipsis

\* C18: a collapsed text of at most limit characters is returned unchanged; a
\* longer one gives a prefix of at most limit characters that ends
\* immediately before a space of the text, followed by an ellipsis (the one
\* character U+2026).
C18_Original ==
    (ret.applied /\ arg.fn = "preview") =>
        LET st == ret.stripped
            out == ret.preview
        IN  /\ Len(st) <= arg.limit => out = st
            /\ Len(st) > arg.limit =>
                  \E k \in 0..arg.limit :
                      /\ out = SubSeq(st, 1, k) \o <<"U+2026">>
                      /\ st[k + 1] = " "

====
